---- MODULE Spec2Model ----
(***************************************************************************)
(* Model of schemas-core (src/schemas-core/src/lib.rs): the SchemaBundle   *)
(* trait over a static list of SchemaFile entries, its query operations    *)
(* and write_to_directory, run against a small model of the filesystem.    *)
(*                                                                         *)
(* A string is a sequence of one-character strings, so that the path       *)
(* operations of std::path (join, parent, file_name, extension) are        *)
(* computed on characters as the library computes them.                    *)
(***************************************************************************)
EXTENDS Integers, Sequences, FiniteSets, TLC

(***************************************************************************)
(* Bounds                                                                  *)
(***************************************************************************)
\* longest bundle: a bundle is the first n <= MaxFiles entries of a family
MaxFiles == 3
\* calls of write_to_directory one caller makes in a run
MaxCalls == 2

\* Option<T>: None is the empty set, Some(v) the singleton of v
None == {}

Some(v) == {v}

Unwrap(o) == CHOOSE v \in o : TRUE

(***************************************************************************)
(* std::path on character sequences                                        *)
(***************************************************************************)
Last(s) == s[Len(s)]

Front(s) == SubSeq(s, 1, Len(s) - 1)

IsPrefix(s, t) == Len(s) <= Len(t) /\ SubSeq(t, 1, Len(s)) = s

EndsWith(s, suf) == Len(suf) <= Len(s) /\ SubSeq(s, Len(s) - Len(suf) + 1, Len(s)) = suf

\* position of the last occurrence of character c in s, 0 when there is none
RECURSIVE LastIndexOf(_, _)
LastIndexOf(s, c) ==
    IF s = <<>> THEN 0
    ELSE IF Last(s) = c THEN Len(s)
    ELSE LastIndexOf(Front(s), c)

\* the pieces of s between the separators "/", empty pieces included
RECURSIVE SplitSep(_)
SplitSep(s) ==
    LET k == LastIndexOf(s, "/")
    IN  IF k = 0 THEN <<s>>
        ELSE Append(SplitSep(SubSeq(s, 1, k - 1)), SubSeq(s, k + 1, Len(s)))

\* Path::is_absolute (unix)
IsAbsolute(p) == p # <<>> /\ p[1] = "/"

\* Path::components without the root: repeated separators and "." pieces are
\* dropped, except a leading "." of a relative path
Components(p) ==
    LET raw == SplitSep(p)
        keep(i) == /\ raw[i] # <<>>
                   /\ \/ raw[i] # <<".">>
                      \/ i = 1 /\ ~IsAbsolute(p)
    IN  SelectSeq([i \in 1..Len(raw) |-> <<i, raw[i]>>], LAMBDA e : keep(e[1]))

CompNames(p) ==
    LET cs == Components(p)
    IN  [i \in 1..Len(cs) |-> cs[i][2]]

RECURSIVE JoinComps(_)
JoinComps(cs) ==
    IF cs = <<>> THEN <<>>
    ELSE IF Len(cs) = 1 THEN cs[1]
    ELSE JoinComps(Front(cs)) \o <<"/">> \o Last(cs)

\* faulty variant: the file is written at file.path, base_path is dropped
JoinDropsBase(base, p) == p

\* Path::join / PathBuf::push: an absolute argument replaces the base, else
\* it is appended after a separator when the base needs one
Join(base, p) ==
    IF IsAbsolute(p) THEN p
    ELSE IF base = <<>> \/ Last(base) = "/" THEN base \o p
    ELSE base \o <<"/">> \o p

\* faulty variant: no path has a parent
ParentNone(p) == None

\* Path::parent: the path without its final component; None for the empty
\* path and for the root
Parent(p) ==
    LET cs == CompNames(p)
    IN  IF cs = <<>> THEN None
        ELSE IF IsAbsolute(p) THEN Some(<<"/">> \o JoinComps(Front(cs)))
        ELSE Some(JoinComps(Front(cs)))

\* Path::file_name: the final component when it is a normal one
FileName(p) ==
    LET cs == CompNames(p)
    IN  IF cs = <<>> \/ Last(cs) = <<".", ".">> \/ Last(cs) = <<".">> THEN None
        ELSE Some(Last(cs))

\* faulty variant: the file name is split at its first dot instead of its last
PathExtensionAfterFirstDot(p) ==
    LET name == Unwrap(FileName(p))
        dots == {n \in 1..Len(name) : name[n] = "."}
        k == CHOOSE n \in dots : \A m \in dots : n <= m
    IN  IF FileName(p) = None THEN None
        ELSE IF dots = {} THEN None
        ELSE IF k = 1 THEN None
        ELSE Some(SubSeq(name, k + 1, Len(name)))

\* Path::extension (rsplit_file_at_dot): the part of the file name after its
\* last dot; None without a dot, and None when the only dot is the first
\* character of the name
PathExtension(p) ==
    LET name == Unwrap(FileName(p))
        k == LastIndexOf(name, ".")
    IN  IF FileName(p) = None THEN None
        ELSE IF k = 0 THEN None
        ELSE IF k = 1 THEN None
        ELSE Some(SubSeq(name, k + 1, Len(name)))

(***************************************************************************)
(* The filesystem: the set of directories and the content of every file,   *)
(* keyed by the component names of the path below the working directory    *)
(* (the key <<>>).                                                         *)
(***************************************************************************)
\* the key of a path: its normal components below the working directory
Resolve(p) == SelectSeq(CompNames(p), LAMBDA c : c # <<".">>)

\* the keys of a key's ancestors, the key itself included, the working
\* directory excluded
Chain(k) == {SubSeq(k, 1, n) : n \in 1..Len(k)}

IsDir(f, k) == k \in f.dirs

IsFile(f, k) == k \in DOMAIN f.files

\* the directories of Chain(k) that do not exist, outermost first
MissingDirs(f, k) ==
    LET n0 == CHOOSE n \in 0..Len(k) :
                /\ \A m \in 1..n : IsDir(f, SubSeq(k, 1, m))
                /\ n < Len(k) => ~IsDir(f, SubSeq(k, 1, n + 1))
    IN  [j \in 1..(Len(k) - n0) |-> SubSeq(k, 1, n0 + j)]

\* faulty variant: std::fs::create_dir in place of create_dir_all: one directory,
\* which must not exist yet and whose parent must
CreateDirOnly(f, path) ==
    LET k == Resolve(path)
    IN  IF path = <<>> \/ IsDir(f, k) \/ IsFile(f, k)
        THEN [ok |-> FALSE, fs |-> f, made |-> {}, source |-> "AlreadyExists"]
        ELSE IF ~IsDir(f, Front(k))
        THEN [ok |-> FALSE, fs |-> f, made |-> {}, source |-> "NotFound"]
        ELSE [ok |-> TRUE, fs |-> [f EXCEPT !.dirs = @ \cup {k}],
              source |-> "none", made |-> {k}]

\* std::fs::create_dir_all(path): Ok at once for the empty path; creates
\* every missing directory of the chain; fails, creating nothing, when an
\* entry of the chain is a file (AlreadyExists for the last one,
\* NotADirectory for an earlier one)
CreateDirAll(f, path) ==
    LET k == Resolve(path)
        blocked == {c \in Chain(k) : IsFile(f, c)}
    IN  IF path = <<>> THEN [ok |-> TRUE, fs |-> f, source |-> "none", made |-> {}]
        ELSE IF blocked # {}
        THEN [ok |-> FALSE, fs |-> f, made |-> {},
              source |-> IF k \in blocked THEN "AlreadyExists" ELSE "NotADirectory"]
        ELSE [ok |-> TRUE, fs |-> [f EXCEPT !.dirs = @ \cup Chain(k)],
              source |-> "none", made |-> Chain(k) \ f.dirs]

\* faulty variant: the file is opened without O_TRUNC and keeps what it holds
FileCreateNoTruncate(f, path) ==
    LET k == Resolve(path)
    IN  IF k = <<>> \/ IsDir(f, k)
        THEN [ok |-> FALSE, fs |-> f, source |-> "IsADirectory"]
        ELSE IF IsFile(f, Front(k))
        THEN [ok |-> FALSE, fs |-> f, source |-> "NotADirectory"]
        ELSE IF ~IsDir(f, Front(k))
        THEN [ok |-> FALSE, fs |-> f, source |-> "NotFound"]
        ELSE [ok |-> TRUE, source |-> "none",
              fs |-> [f EXCEPT !.files = @ @@ (k :> <<>>)]]

\* faulty variant: File::create_new, which refuses a file that exists
FileCreateNew(f, path) ==
    LET k == Resolve(path)
    IN  IF k = <<>> \/ IsDir(f, k) \/ IsFile(f, k)
        THEN [ok |-> FALSE, fs |-> f, source |-> "AlreadyExists"]
        ELSE IF ~IsDir(f, Front(k))
        THEN [ok |-> FALSE, fs |-> f, source |-> "NotFound"]
        ELSE [ok |-> TRUE, source |-> "none",
              fs |-> [f EXCEPT !.files = (k :> <<>>) @@ @]]

\* File::create(path): the file is created empty, or truncated when it
\* exists; fails on a directory and under a parent that is no directory
FileCreate(f, path) ==
    LET k == Resolve(path)
    IN  IF k = <<>> \/ IsDir(f, k)
        THEN [ok |-> FALSE, fs |-> f, source |-> "IsADirectory"]
        ELSE IF IsFile(f, Front(k))
        THEN [ok |-> FALSE, fs |-> f, source |-> "NotADirectory"]
        ELSE IF ~IsDir(f, Front(k))
        THEN [ok |-> FALSE, fs |-> f, source |-> "NotFound"]
        ELSE [ok |-> TRUE, source |-> "none",
              fs |-> [f EXCEPT !.files = (k :> <<>>) @@ @]]

\* the bytes of a file after `bytes` were written at offset 0 over `old`
Overwrite(old, bytes) ==
    IF Len(bytes) >= Len(old) THEN bytes
    ELSE bytes \o SubSeq(old, Len(bytes) + 1, Len(old))

\* faulty variant: a single write, which takes one byte at most
WriteOnce(f, path, bytes) ==
    LET k == Resolve(path)
    IN  [f EXCEPT !.files[k] = Overwrite(@, IF bytes = <<>> THEN <<>> ELSE <<bytes[1]>>)]

\* write_all(bytes) on a handle that File::create returned: the handle's
\* offset is 0, the bytes replace the start of whatever the file holds now
WriteAll(f, path, bytes) ==
    LET k == Resolve(path)
    IN  [f EXCEPT !.files[k] = Overwrite(@, bytes)]

(***************************************************************************)
(* Bundles: SchemaFile entries and the SchemaBundle queries                *)
(***************************************************************************)
SchemaFile(path, content) == [path |-> path, content |-> content]

\* the file lists the concrete bundles embed, in the order of files()
Dita12Files ==
    << SchemaFile(<<"a", ".", "x">>, <<1, 2>>),
       SchemaFile(<<"s", "/", "b", ".", "x">>, <<1>>),
       SchemaFile(<<"s", "/", "c", ".", "d">>, <<>>),
       SchemaFile(<<"s", "/", "t", "/", "e", ".", "x">>, <<2, 2>>) >>

SplFiles ==
    << SchemaFile(<<"s", "/", "b", ".", "x">>, <<2, 1, 1>>),
       SchemaFile(<<"a", ".", "x">>, <<2>>),
       SchemaFile(<<".", "x">>, <<1>>),
       SchemaFile(<<"s", "/", ".", "a", ".", "x">>, <<1, 1>>) >>

TeiP5Files ==
    << SchemaFile(<<"a", "x">>, <<1>>),
       SchemaFile(<<"t", "/", "b", ".", "d", ".", "x">>, <<2>>),
       SchemaFile(<<"a", ".">>, <<>>),
       SchemaFile(<<"t", "/", ".", "d">>, <<1, 2>>) >>

Families ==
    { [name |-> "DITA", version |-> "1.2", license |-> "OASIS-IPR", files |-> Dita12Files],
      [name |-> "SPL", version |-> "R2b", license |-> "BSD-3-Clause", files |-> SplFiles],
      [name |-> "TEI", version |-> "P5", license |-> "BSD-2-Clause", files |-> TeiP5Files] }

\* the directories of the tree a family is embedded from that hold no file,
\* neither directly nor below: the tree of TEI has "e" and "t/g"
EmptyDirs(b) ==
    IF b.name = "TEI" THEN { <<"e">>, <<"t", "/", "g">> } ELSE {}

\* a bundle embeds the first n files of a family
Bundles ==
    { [f EXCEPT !.files = SubSeq(@, 1, n)] :
        f \in Families, n \in 0..MaxFiles }

\* SchemaBundle::files
Files(b) == b.files

\* faulty variant: only the files at the top of the tree are counted
file_countTopLevel(b) ==
    Len(SelectSeq(Files(b), LAMBDA f : LastIndexOf(f.path, "/") = 0))

\* SchemaBundle::file_count
file_count(b) == Len(Files(b))

\* faulty variant: an entry matches when its path ends with the argument
get_fileBySuffix(b, path) ==
    LET hits == {i \in 1..Len(Files(b)) : EndsWith(Files(b)[i].path, path)}
    IN  IF hits = {} THEN None
        ELSE Some(Files(b)[CHOOSE i \in hits : \A j \in hits : i <= j])

\* SchemaBundle::get_file: the first entry whose path is the argument
get_file(b, path) ==
    LET hits == {i \in 1..Len(Files(b)) : Files(b)[i].path = path}
    IN  IF hits = {} THEN None
        ELSE Some(Files(b)[CHOOSE i \in hits : \A j \in hits : i <= j])

\* SchemaBundle::find_files: the entries the predicate holds for, in order
find_files(b, predicate) == SelectSeq(Files(b), LAMBDA f : predicate[f])

\* SchemaFile::extension
extension(file) == PathExtension(file.path)

\* SchemaBundle::files_by_extension
files_by_extension(b, ext) ==
    SelectSeq(Files(b), LAMBDA f : extension(f) = Some(ext))

\* SchemaBundle::list_paths
list_paths(b) == [i \in 1..Len(Files(b)) |-> Files(b)[i].path]

\* the sum of the items of a sequence of numbers, from 0 (Iterator::sum)
RECURSIVE Sum(_)
Sum(sizes) == IF sizes = <<>> THEN 0 ELSE Sum(Front(sizes)) + Last(sizes)

\* faulty variant: the length of the path is summed, not that of the content
total_sizeOfPaths(b) == Sum([i \in 1..Len(Files(b)) |-> Len(Files(b)[i].path)])

\* SchemaBundle::total_size
total_size(b) == Sum([i \in 1..Len(Files(b)) |-> Len(Files(b)[i].content)])

\* faulty variant: the version and the license change places
summarySwapped(b) ==
    [name |-> b.name, version |-> b.license, license |-> b.version,
     file_count |-> file_count(b), total_size |-> total_size(b)]

\* SchemaBundleExt::summary: a BundleSummary
summary(b) ==
    [name |-> b.name, version |-> b.version, license |-> b.license,
     file_count |-> file_count(b), total_size |-> total_size(b)]

(***************************************************************************)
(* State                                                                   *)
(***************************************************************************)
\* the callers of write_to_directory
Threads == {1, 2}

VARIABLES
    fs,         \* the filesystem: [dirs, files]
    bundle,     \* bundle[t]: the bundle type thread t extracts
    base,       \* base[t]: the base_path thread t passes
    pc,         \* pc[t]: "off", "idle", "dir", "open", "write" or "done"
    idx,        \* idx[t]: position in files() of the file being processed
    count,      \* count[t]: the local `count`
    result,     \* result[t]: what the last call of t returned
    log,        \* log[t]: the filesystem calls the current call has made
    touched,    \* touched[t]: keys the current call created or modified
    faulted,    \* faulted[t]: the current call met an injected I/O fault
    fs0,        \* fs0[t]: the filesystem when the current call began
    hist,       \* hist[t]: one record per finished call of t
    budget,     \* budget[t]: calls thread t may still start
    lastWrite,  \* lastWrite[k]: the thread whose write_all on k finished last
    raced,      \* keys written while another caller's handle was open, unwritten
    ret         \* the value the last query returned

vars == <<fs, bundle, base, pc, idx, count, result, log, touched, faulted,
          fs0, hist, budget, lastWrite, raced, ret>>

Ok(n) == [ok |-> TRUE, count |-> n, kind |-> "none", path |-> <<>>, source |-> "none"]

Err(kind, path, source) ==
    [ok |-> FALSE, count |-> 0, kind |-> kind, path |-> path, source |-> source]

\* the variants of SchemaError
SchemaErrorKinds == {"FileNotFound", "WriteError", "CreateDirError"}

\* faulty variant: the error names the file instead of the directory
CreateDirErrorOfFile(parent, full_path, e) == Err("CreateDirError", full_path, e)

\* the map_err closure of create_dir_all: the error names the parent
\* directory (parent.display()) and keeps the io::Error
CreateDirError(parent, full_path, e) == Err("CreateDirError", parent, e)

\* faulty variant: a failed write is reported as a missing file
WriteErrorAsFileNotFound(full_path, e) == Err("FileNotFound", full_path, e)

\* the map_err closure of fs::write: the error names the file
\* (full_path.display()) and keeps the io::Error
WriteError(full_path, e) == Err("WriteError", full_path, e)

\* faulty variant: the result of create_dir_all is dropped, only fs::write has its `?`
PropagatesWriteOnly(r) == ~r.ok /\ "made" \notin DOMAIN r

\* the `?` after each filesystem call: a failed call ends write_to_directory
Propagates(r) == ~r.ok

Pending == [ok |-> FALSE, count |-> 0, kind |-> "pending", path |-> <<>>, source |-> "none"]

O == <<"o">>

\* what the disk may hold before the first call: nothing; an older, longer
\* o/a.x beside a foreign file o/z; a file at o/s; a directory at o/a.x
FsEmpty == [dirs |-> {<<>>}, files |-> <<>>]

FsOlder ==
    [dirs |-> {<<>>, <<O>>},
     files |-> (<<O, <<"z">>>> :> <<1>>) @@ (<<O, <<"a", ".", "x">>>> :> <<2, 2, 2>>)]

FsFileAtDir == [dirs |-> {<<>>, <<O>>}, files |-> (<<O, <<"s">>>> :> <<1>>)]

FsDirAtFile == [dirs |-> {<<>>, <<O>>, <<O, <<"a", ".", "x">>>>}, files |-> <<>>]

\* a run of one caller: the disk before the first call and the base path,
\* which is new, or holds older or foreign entries, or is the working directory
Setups ==
    { <<FsEmpty, <<>>>>, <<FsEmpty, <<"o">>>>, <<FsEmpty, <<"o", "/", "n">>>>,
      <<FsOlder, <<>>>>, <<FsOlder, <<"o">>>>,
      <<FsFileAtDir, <<"o">>>>, <<FsDirAtFile, <<"o">>>> }

NoBundle == [name |-> "", version |-> "", license |-> "", files |-> <<>>]

\* the bundles of a family
BundlesOf(names) == {b \in Bundles : b.name \in names}

\* setups: pairs of a disk and the base paths of the two callers
InitWith(active, setups, bundlePairs, calls) ==
    /\ \E s \in setups : fs = s[1] /\ base = s[2]
    /\ bundle \in bundlePairs
    /\ budget = [t \in Threads |-> IF t \in active THEN calls ELSE 0]
    /\ pc = [t \in Threads |-> IF t \in active THEN "idle" ELSE "off"]
    /\ idx = [t \in Threads |-> 0]
    /\ count = [t \in Threads |-> 0]
    /\ result = [t \in Threads |-> Pending]
    /\ log = [t \in Threads |-> <<>>]
    /\ touched = [t \in Threads |-> {}]
    /\ faulted = [t \in Threads |-> FALSE]
    /\ fs0 = [t \in Threads |-> FsEmpty]
    /\ hist = [t \in Threads |-> <<>>]
    /\ lastWrite = <<>>
    /\ raced = {}
    /\ ret = [op |-> "none"]

\* one caller, any disk
Init ==
    InitWith({1}, {<<s[1], <<s[2], <<>>>>>> : s \in Setups},
             {<<b, NoBundle>> : b \in Bundles}, MaxCalls)

(***************************************************************************)
(* write_to_directory, one filesystem call per step                        *)
(***************************************************************************)
\* the entry of files() the loop is at, and base_path.join(file.path)
CurFile(t) == Files(bundle[t])[idx[t]]

FullPath(t) == Join(base[t], CurFile(t).path)

\* a filesystem call of the loop: the operation, the position of the file it
\* is made for, the key of the path it is given and its outcome
LogEntry(op, i, key, ok, source) ==
    [op |-> op, i |-> i, key |-> key, ok |-> ok, source |-> source]

\* the call of t returns r, leaving the filesystem f
Return(t, r, f, flt) ==
    /\ pc' = [pc EXCEPT ![t] = "done"]
    /\ result' = [result EXCEPT ![t] = r]
    /\ hist' = [hist EXCEPT ![t] = Append(@, [result |-> r, faulted |-> flt,
                                               before |-> fs0[t], after |-> f])]

\* faulty variant: the counter grows by the bytes written
CountedBytes(c, file) == c + Len(file.content)

\* `count += 1`, once the write of file succeeded
Counted(c, file) == c + 1

\* faulty variant: the loop stays at the file it is at
NextFileSame(i) == i

\* the position the `for` loop takes after position i
NextFile(i) == i + 1

\* faulty variant: base_path is created on entry
AtEntryCreatesBase(f, basePath) == CreateDirAll(f, basePath).fs

\* the filesystem when the loop begins, f at the call: no filesystem call
\* comes before the loop
AtEntry(f, basePath) == f

\* entry: `let mut count = 0` and the loop head; an empty files() returns
\* Ok(0) without a filesystem call
StartCall(t) ==
    /\ pc[t] \in {"idle", "done"}
    /\ budget[t] > 0
    /\ budget' = [budget EXCEPT ![t] = @ - 1]
    /\ idx' = [idx EXCEPT ![t] = 1]
    /\ count' = [count EXCEPT ![t] = 0]
    /\ log' = [log EXCEPT ![t] = <<>>]
    /\ touched' = [touched EXCEPT ![t] = {}]
    /\ faulted' = [faulted EXCEPT ![t] = FALSE]
    /\ fs0' = [fs0 EXCEPT ![t] = fs]
    /\ fs' = AtEntry(fs, base[t])
    /\ IF Files(bundle[t]) = <<>>
       THEN /\ pc' = [pc EXCEPT ![t] = "done"]
            /\ result' = [result EXCEPT ![t] = Ok(0)]
            /\ hist' = [hist EXCEPT ![t] = Append(@, [result |-> Ok(0), faulted |-> FALSE,
                                                       before |-> fs, after |-> fs'])]
       ELSE /\ pc' = [pc EXCEPT ![t] = "dir"]
            /\ result' = [result EXCEPT ![t] = Pending]
            /\ UNCHANGED hist
    /\ UNCHANGED <<bundle, base, lastWrite, raced, ret>>

\* `if let Some(parent) = full_path.parent() { create_dir_all(parent) ...? }`
CreateParentDirs(t) ==
    /\ pc[t] = "dir"
    /\ LET parent == Parent(FullPath(t))
       IN  IF parent = None
           THEN /\ pc' = [pc EXCEPT ![t] = "open"]
                /\ UNCHANGED <<fs, result, log, touched, hist>>
           ELSE LET dir == Unwrap(parent)
                    r == CreateDirAll(fs, dir)
                IN  /\ fs' = r.fs
                    /\ log' = [log EXCEPT ![t] = Append(@,
                                 LogEntry("create_dir_all", idx[t], Resolve(dir), r.ok, r.source))]
                    /\ touched' = [touched EXCEPT ![t] = @ \cup r.made]
                    /\ IF Propagates(r)
                       THEN Return(t, CreateDirError(dir, FullPath(t), r.source), r.fs, faulted[t])
                       ELSE /\ pc' = [pc EXCEPT ![t] = "open"]
                            /\ UNCHANGED <<result, hist>>
    /\ UNCHANGED <<bundle, base, idx, count, faulted, fs0, lastWrite, raced, ret, budget>>

\* create_dir_all meets an I/O fault after creating the first j of the
\* missing directories
CreateParentDirsFault(t) ==
    /\ pc[t] = "dir"
    /\ Parent(FullPath(t)) # None
    /\ LET dir == Unwrap(Parent(FullPath(t)))
           missing == MissingDirs(fs, Resolve(dir))
       IN  /\ dir # <<>>
           /\ CreateDirAll(fs, dir).ok
           /\ \E j \in 0..(IF Len(missing) = 0 THEN 0 ELSE Len(missing) - 1) :
                LET made == {missing[m] : m \in 1..j}
                    f == [fs EXCEPT !.dirs = @ \cup made]
                IN  /\ fs' = f
                    /\ touched' = [touched EXCEPT ![t] = @ \cup made]
                    /\ log' = [log EXCEPT ![t] = Append(@,
                                 LogEntry("create_dir_all", idx[t], Resolve(dir), FALSE, "PermissionDenied"))]
                    /\ Return(t, CreateDirError(dir, FullPath(t), "PermissionDenied"), f, TRUE)
    /\ faulted' = [faulted EXCEPT ![t] = TRUE]
    /\ UNCHANGED <<bundle, base, idx, count, fs0, lastWrite, raced, ret, budget>>

\* std::fs::write, first half: File::create(&full_path)
OpenFile(t) ==
    /\ pc[t] = "open"
    /\ LET r == FileCreate(fs, FullPath(t))
           k == Resolve(FullPath(t))
       IN  /\ fs' = r.fs
           /\ log' = [log EXCEPT ![t] = Append(@,
                        LogEntry("create", idx[t], k, r.ok, r.source))]
           /\ IF Propagates(r)
              THEN /\ Return(t, WriteError(FullPath(t), r.source), r.fs, faulted[t])
                   /\ UNCHANGED <<touched, raced>>
              ELSE /\ pc' = [pc EXCEPT ![t] = "write"]
                   /\ touched' = [touched EXCEPT ![t] = @ \cup {k}]
                   /\ raced' = raced \ {k}
                   /\ UNCHANGED <<result, hist>>
    /\ UNCHANGED <<bundle, base, idx, count, faulted, fs0, lastWrite, ret, budget>>

\* File::create meets an I/O fault: nothing is created or truncated
OpenFileFault(t) ==
    /\ pc[t] = "open"
    /\ FileCreate(fs, FullPath(t)).ok
    /\ log' = [log EXCEPT ![t] = Append(@,
                 LogEntry("create", idx[t], Resolve(FullPath(t)), FALSE, "PermissionDenied"))]
    /\ faulted' = [faulted EXCEPT ![t] = TRUE]
    /\ Return(t, WriteError(FullPath(t), "PermissionDenied"), fs, TRUE)
    /\ UNCHANGED <<fs, bundle, base, idx, count, touched, fs0, lastWrite, raced, ret, budget>>

\* some other thread holds an open handle on key k, its write_all pending
WritePending(t, k) ==
    \E u \in Threads \ {t} : pc[u] = "write" /\ Resolve(FullPath(u)) = k

\* std::fs::write, second half: write_all(file.content); then `count += 1`
\* and the next iteration, or `Ok(count)` after the last file
WriteContent(t) ==
    /\ pc[t] = "write"
    /\ LET k == Resolve(FullPath(t))
           f == WriteAll(fs, FullPath(t), CurFile(t).content)
       IN  /\ fs' = f
           /\ log' = [log EXCEPT ![t] = Append(@,
                        LogEntry("write_all", idx[t], k, TRUE, "none"))]
           /\ lastWrite' = (k :> t) @@ lastWrite
           /\ raced' = IF WritePending(t, k) THEN raced \cup {k} ELSE raced
           /\ count' = [count EXCEPT ![t] = Counted(@, CurFile(t))]
           /\ IF idx[t] < Len(Files(bundle[t]))
              THEN /\ idx' = [idx EXCEPT ![t] = NextFile(@)]
                   /\ pc' = [pc EXCEPT ![t] = "dir"]
                   /\ UNCHANGED <<result, hist>>
              ELSE /\ Return(t, Ok(count'[t]), f, faulted[t])
                   /\ UNCHANGED idx
    /\ UNCHANGED <<bundle, base, touched, faulted, fs0, ret, budget>>

\* write_all meets an I/O fault after n < len bytes reached the file
WriteContentFault(t) ==
    /\ pc[t] = "write"
    /\ \E n \in 0..(Len(CurFile(t).content) - 1) :
         LET f == WriteAll(fs, FullPath(t), SubSeq(CurFile(t).content, 1, n))
         IN  /\ fs' = f
             /\ Return(t, WriteError(FullPath(t), "StorageFull"), f, TRUE)
    /\ log' = [log EXCEPT ![t] = Append(@,
                 LogEntry("write_all", idx[t], Resolve(FullPath(t)), FALSE, "StorageFull"))]
    /\ faulted' = [faulted EXCEPT ![t] = TRUE]
    /\ UNCHANGED <<bundle, base, idx, count, touched, fs0, lastWrite, raced, ret, budget>>

\* the calls of one caller, one after the other, I/O faults included
Next ==
    \/ StartCall(1)
    \/ CreateParentDirs(1)
    \/ CreateParentDirsFault(1)
    \/ OpenFile(1)
    \/ OpenFileFault(1)
    \/ WriteContent(1)
    \/ WriteContentFault(1)

Spec == Init /\ [][Next]_vars

\* two callers, one call each, on base paths that coincide ("o", "o"), are
\* apart ("o", "p") or are apart below a common missing parent ("o/n",
\* "o/m"); the second caller extracts the same bundle type as the first or
\* one whose paths overlap it with other bytes; no I/O fault is injected
ConcSetups ==
    { <<FsEmpty, << <<"o">>, <<"o">> >> >>,
      <<FsFileAtDir, << <<"o">>, <<"o">> >> >>,
      <<FsFileAtDir, << <<"o">>, <<"p">> >> >>,
      <<FsEmpty, << <<"o", "/", "n">>, <<"o", "/", "m">> >> >> }

ConcBundles ==
    { p \in BundlesOf({"DITA"}) \X BundlesOf({"DITA", "SPL"}) :
        p[2] = p[1] \/ p[2].name = "SPL" }

InitConc == InitWith(Threads, ConcSetups, ConcBundles, 1)

NextConc ==
    \E t \in Threads :
        \/ StartCall(t)
        \/ CreateParentDirs(t)
        \/ OpenFile(t)
        \/ WriteContent(t)

SpecConc == InitConc /\ [][NextConc]_vars

(***************************************************************************)
(* write_to_directory as a whole, when no I/O fault is met: the result it  *)
(* returns and the filesystem it leaves, from filesystem f                 *)
(***************************************************************************)
RECURSIVE ExtractFrom(_, _, _, _)
ExtractFrom(b, basePath, f, i) ==
    IF i > Len(Files(b)) THEN [result |-> Ok(Len(Files(b))), fs |-> f]
    ELSE LET full == Join(basePath, Files(b)[i].path)
             d == IF Parent(full) = None
                  THEN [ok |-> TRUE, fs |-> f, source |-> "none", made |-> {}]
                  ELSE CreateDirAll(f, Unwrap(Parent(full)))
             c == FileCreate(d.fs, full)
         IN  IF Propagates(d)
             THEN [result |-> CreateDirError(Unwrap(Parent(full)), full, d.source), fs |-> d.fs]
             ELSE IF Propagates(c)
             THEN [result |-> WriteError(full, c.source), fs |-> c.fs]
             ELSE ExtractFrom(b, basePath, WriteAll(c.fs, full, Files(b)[i].content), i + 1)

write_to_directory(b, basePath, f) == ExtractFrom(b, basePath, f, 1)

(***************************************************************************)
(* Vocabulary of the properties                                            *)
(***************************************************************************)
\* the key of base_path/p
Target(t, p) == Resolve(Join(base[t], p))

\* the in-memory file with path p
Embedded(t, p) == Unwrap(get_file(bundle[t], p))

\* the call of t has returned
Returned(t) == pc[t] = "done"

\* base_path holds nothing in f: it is missing, or a directory without entries
BaseEmpty(f, basePath) ==
    LET k == Resolve(basePath)
    IN  /\ ~IsFile(f, k)
        /\ \A e \in f.dirs \cup DOMAIN f.files : IsPrefix(k, e) => e = k

\* the log entries of the call of t that failed
Failures(t) == {n \in 1..Len(log[t]) : ~log[t][n].ok}

(***************************************************************************)
(* C1: after write_to_directory(base) returned Ok, every path p of         *)
(* list_paths() names a file base/p on disk whose bytes are those of the   *)
(* in-memory file with path p.                                             *)
(***************************************************************************)
C1_RoundTrip ==
    \A t \in Threads :
        Returned(t) /\ result[t].ok =>
            \A n \in 1..Len(list_paths(bundle[t])) :
                LET p == list_paths(bundle[t])[n]
                IN  /\ IsFile(fs, Target(t, p))
                    /\ fs.files[Target(t, p)] = Embedded(t, p).content

\* an extraction of two or more files over an older, longer a.x has returned Ok
C1_Witness ==
    /\ Returned(1) /\ result[1].ok
    /\ file_count(bundle[1]) >= 2
    /\ IsFile(fs0[1], Target(1, <<"a", ".", "x">>))
    /\ fs0[1].files[Target(1, <<"a", ".", "x">>)] # fs.files[Target(1, <<"a", ".", "x">>)]

(***************************************************************************)
(* C2: a failing write_to_directory stops at the first failing entry and   *)
(* rolls nothing back: when it failed at the i-th file, the files before   *)
(* it were written by this call and are on disk with their bundle content, *)
(* and no filesystem call was made for a later file or after the failure.  *)
(***************************************************************************)
C2_StopsAtFirstFailure ==
    \A t \in Threads :
        Returned(t) /\ ~result[t].ok =>
            LET i == Last(log[t]).i
            IN  /\ Failures(t) = {Len(log[t])}
                /\ \A n \in 1..Len(log[t]) : log[t][n].i <= i
                /\ \A j \in 1..(i - 1) :
                     LET file == Files(bundle[t])[j]
                     IN  /\ \E n \in 1..Len(log[t]) :
                               /\ log[t][n].op = "write_all"
                               /\ log[t][n].i = j
                               /\ log[t][n].ok
                         /\ IsFile(fs, Target(t, file.path))
                         /\ fs.files[Target(t, file.path)] = file.content

\* a call failed at its second or a later file, with a file still to come
C2_Witness ==
    /\ Returned(1) /\ ~result[1].ok
    /\ Last(log[1]).i >= 2
    /\ Last(log[1]).i < file_count(bundle[1])

(***************************************************************************)
(* C3: write_to_directory returns CreateDirError exactly when a            *)
(* create_dir_all failed, carrying the directory it was asked to create,   *)
(* and WriteError exactly when the write of a file failed, carrying the    *)
(* full path of that file; both carry the I/O cause; a file whose          *)
(* directory creation failed is not written.                               *)
(***************************************************************************)
C3_ErrorKinds ==
    \A t \in Threads :
        Returned(t) =>
            LET l == log[t]
                dirFailed == \E n \in Failures(t) : l[n].op = "create_dir_all"
                writeFailed == \E n \in Failures(t) : l[n].op \in {"create", "write_all"}
                file == Files(bundle[t])[Last(l).i]
                full == Join(base[t], file.path)
            IN  /\ (result[t].kind = "CreateDirError") <=> dirFailed
                /\ (result[t].kind = "WriteError") <=> writeFailed
                /\ result[t].ok <=> ~dirFailed /\ ~writeFailed
                /\ dirFailed =>
                     /\ result[t].path = Unwrap(Parent(full))
                     /\ result[t].source = Last(l).source
                     /\ result[t].source # "none"
                     /\ \A n \in 1..Len(l) :
                          l[n].i = Last(l).i => l[n].op = "create_dir_all"
                     /\ IsFile(fs, Resolve(full)) = IsFile(fs0[t], Resolve(full))
                     /\ IsFile(fs, Resolve(full)) =>
                          fs.files[Resolve(full)] = fs0[t].files[Resolve(full)]
                /\ writeFailed =>
                     /\ result[t].path = full
                     /\ result[t].source = Last(l).source
                     /\ result[t].source # "none"

\* the caller has had one call fail with CreateDirError and one with WriteError
C3_Witness ==
    /\ \E n \in 1..Len(hist[1]) : hist[1][n].result.kind = "CreateDirError"
    /\ \E n \in 1..Len(hist[1]) : hist[1][n].result.kind = "WriteError"

(***************************************************************************)
(* C4: two calls of write_to_directory in succession on the same base      *)
(* path, empty before the first, with no I/O fault, both return Ok with    *)
(* the same count, and the second leaves the filesystem as the first did.  *)
(***************************************************************************)
C4_OverwriteIdempotent ==
    \A t \in Threads :
        \A n \in 1..(Len(hist[t]) - 1) :
            LET first == hist[t][n]
                second == hist[t][n + 1]
            IN  /\ ~first.faulted
                /\ ~second.faulted
                /\ BaseEmpty(first.before, base[t])
                /\ second.before = first.after
                => /\ first.result.ok
                   /\ second.result.ok
                   /\ second.result.count = first.result.count
                   /\ second.after = first.after

\* two fault-free calls into an initially empty base have written files twice
C4_Witness ==
    /\ Len(hist[1]) >= 2
    /\ ~hist[1][1].faulted /\ ~hist[1][2].faulted
    /\ BaseEmpty(hist[1][1].before, base[1])
    /\ hist[1][2].result.ok
    /\ hist[1][2].result.count >= 2

(***************************************************************************)
(* C5: after a call of write_to_directory(base) that failed, into a base   *)
(* path that was empty, a later call that meets no I/O fault returns Ok    *)
(* with the full file count and leaves the filesystem as one fault-free    *)
(* extraction into the empty base path leaves it.                          *)
(***************************************************************************)
C5_RecoveryByReinvocation ==
    \A t \in Threads :
        \A m \in 1..Len(hist[t]) : \A n \in (m + 1)..Len(hist[t]) :
            LET failed == hist[t][m]
                later == hist[t][n]
            IN  /\ ~failed.result.ok
                /\ BaseEmpty(failed.before, base[t])
                /\ ~later.faulted
                => /\ later.result = Ok(file_count(bundle[t]))
                   /\ later.after = write_to_directory(bundle[t], base[t], failed.before).fs

\* a call failed leaving files and a partial file behind, and the next met no fault
C5_Witness ==
    /\ Len(hist[1]) >= 2
    /\ ~hist[1][1].result.ok
    /\ BaseEmpty(hist[1][1].before, base[1])
    /\ hist[1][1].after # hist[1][1].before
    /\ DOMAIN hist[1][1].after.files # {}
    /\ ~hist[1][2].faulted

(***************************************************************************)
(* Vocabulary of the concurrency properties                                *)
(***************************************************************************)
Other(t) == CHOOSE u \in Threads : u # t

\* the call of t has written its file for key k
WroteTo(t, k) ==
    \E n \in 1..Len(log[t]) :
        log[t][n].op = "write_all" /\ log[t][n].ok /\ log[t][n].key = k

\* the bytes the bundle of t holds for key k
ContentFor(t, k) ==
    LET i == CHOOSE j \in 1..Len(Files(bundle[t])) : Target(t, Files(bundle[t])[j].path) = k
    IN  Files(bundle[t])[i].content

\* the keys both calls wrote
Overlap == {k \in DOMAIN lastWrite : \A t \in Threads : WroteTo(t, k)}

\* neither base path lies at or under the other
BasesApart ==
    /\ ~IsPrefix(Resolve(base[1]), Resolve(base[2]))
    /\ ~IsPrefix(Resolve(base[2]), Resolve(base[1]))

\* the entries of filesystem f at or under key k
Under(f, k) ==
    [dirs |-> {e \in f.dirs : IsPrefix(k, e)},
     files |-> [e \in {e \in DOMAIN f.files : IsPrefix(k, e)} |-> f.files[e]]]

(***************************************************************************)
(* C6 as stated: when two interleaved calls on the same base path have     *)
(* both returned, every file both wrote holds exactly the content of the   *)
(* call that wrote it last.                                                *)
(***************************************************************************)
C6_LastWriterWins ==
    (\A t \in Threads : Returned(t)) =>
        \A k \in Overlap : fs.files[k] = ContentFor(lastWrite[k], k)

(***************************************************************************)
(* C6 amended: when two interleaved calls on the same base path have both  *)
(* returned, every file both wrote begins with the content of the call     *)
(* whose write_all on it finished last; it holds exactly that content      *)
(* unless the other call's write_all fell between that call's truncation   *)
(* and its write_all, and then the bytes after it are the rest of the      *)
(* other call's longer content.                                            *)
(***************************************************************************)
C6_LastWriterWinsPerWrite ==
    (\A t \in Threads : Returned(t)) =>
        \A k \in Overlap :
            LET last == ContentFor(lastWrite[k], k)
                other == ContentFor(Other(lastWrite[k]), k)
                now == fs.files[k]
            IN  /\ IsPrefix(last, now)
                /\ k \notin raced => now = last
                /\ k \in raced =>
                     /\ Len(now) = (IF Len(other) > Len(last) THEN Len(other) ELSE Len(last))
                     /\ \A n \in (Len(last) + 1)..Len(now) : now[n] = other[n]

\* no atomicity across the bundle: both calls returned Ok, and of two files
\* both wrote, one holds the bytes of the first call and one those of the second
C6_Witness ==
    /\ \A t \in Threads : Returned(t) /\ result[t].ok
    /\ \E k1, k2 \in Overlap \ raced :
         /\ lastWrite[k1] = 1 /\ lastWrite[k2] = 2
         /\ ContentFor(1, k1) # ContentFor(2, k1)
         /\ ContentFor(1, k2) # ContentFor(2, k2)
         /\ fs.files[k1] = ContentFor(1, k1)
         /\ fs.files[k2] = ContentFor(2, k2)

(***************************************************************************)
(* C7 as stated: concurrent calls on base paths that lie apart create or   *)
(* modify only entries under their own base path, and each returns what it *)
(* returns alone and leaves under its base path what it leaves alone.      *)
(***************************************************************************)
SameAsAlone(t) ==
    LET alone == write_to_directory(bundle[t], base[t], fs0[t])
    IN  /\ result[t] = alone.result
        /\ Under(fs, Resolve(base[t])) = Under(alone.fs, Resolve(base[t]))

C7_OnlyUnderOwnBase ==
    BasesApart =>
        \A t \in Threads :
            /\ \A k \in touched[t] : IsPrefix(Resolve(base[t]), k)
            /\ Returned(t) /\ Returned(Other(t)) => SameAsAlone(t)

(***************************************************************************)
(* C7 amended: concurrent calls on base paths that lie apart create or     *)
(* modify only entries at or under their own base path, except that a call *)
(* creates the missing parent directories of its base path; each returns   *)
(* what it returns alone and leaves under its base path what it leaves     *)
(* alone.                                                                  *)
(***************************************************************************)
C7_IndependentBases ==
    BasesApart =>
        \A t \in Threads :
            /\ \A k \in touched[t] :
                 \/ IsPrefix(Resolve(base[t]), k)
                 \/ /\ k \in Chain(Resolve(base[t]))
                    /\ k \notin fs0[t].dirs \cup DOMAIN fs0[t].files
                    /\ IsDir(fs, k)
            /\ Returned(t) /\ Returned(Other(t)) => SameAsAlone(t)

\* two calls on o/n and o/m, both with files, have interleaved and returned,
\* after the first created the common parent o
C7_Witness ==
    /\ BasesApart
    /\ \A t \in Threads : Returned(t) /\ result[t].ok /\ count[t] >= 2
    /\ <<O>> \in touched[1]
    /\ \E n \in 1..Len(log[2]) : /\ ~IsFile(hist[1][1].before, log[2][n].key)
                                  /\ IsFile(hist[1][1].after, log[2][n].key)

(***************************************************************************)
(* The queries, applied to the bundle of caller 1                          *)
(***************************************************************************)
\* the arguments of get_file: every embedded path, "m.x" (missing), "b.x"
\* (a file name without its directory), "s" (a directory) and ""
QueryPaths ==
    {f.files[n].path : f \in Families, n \in 1..4}
        \cup { <<"m", ".", "x">>, <<"b", ".", "x">>, <<"s">>, <<>> }

\* the arguments of files_by_extension: "x", "d", "", "d.x", ".x", "a"
QueryExts == { <<"x">>, <<"d">>, <<>>, <<"d", ".", "x">>, <<".", "x">>, <<"a">> }

Answer(op, arg, value) ==
    /\ ret' = [op |-> op, arg |-> arg, value |-> value]
    /\ UNCHANGED <<fs, bundle, base, pc, idx, count, result, log, touched, faulted,
                   fs0, hist, budget, lastWrite, raced>>

GetFile == \E p \in QueryPaths : Answer("get_file", p, get_file(bundle[1], p))

FilesByExtension ==
    \E e \in QueryExts : Answer("files_by_extension", e, files_by_extension(bundle[1], e))

ListPaths == Answer("list_paths", <<>>, list_paths(bundle[1]))

FileCount == Answer("file_count", <<>>, file_count(bundle[1]))

\* every SchemaFile of the families
AllFiles == {f.files[n] : f \in Families, n \in 1..4}

\* predicates a caller of find_files may pass: the file has no content; the
\* file lies in a directory
IsEmptyFile == [f \in AllFiles |-> f.content = <<>>]

IsNested == [f \in AllFiles |-> LastIndexOf(f.path, "/") > 0]

FindFiles ==
    \/ Answer("find_files", "IsEmptyFile", find_files(bundle[1], IsEmptyFile))
    \/ Answer("find_files", "IsNested", find_files(bundle[1], IsNested))

TotalSize == Answer("total_size", <<>>, total_size(bundle[1]))

Summary == Answer("summary", <<>>, summary(bundle[1]))

NextQuery ==
    \/ GetFile
    \/ FilesByExtension
    \/ ListPaths
    \/ FileCount
    \/ FindFiles
    \/ TotalSize
    \/ Summary

\* the queries read the bundle only: nothing on disk, no call under way
InitQuery ==
    InitWith({1}, {<<FsEmpty, << <<>>, <<>> >> >>}, {<<b, NoBundle>> : b \in Bundles}, 0)

SpecQuery == InitQuery /\ [][NextQuery]_vars

\* the characters of a string
Chars(str) == {str[n] : n \in 1..Len(str)}

\* the part of a path after its last separator
LastPiece(p) == SubSeq(p, LastIndexOf(p, "/") + 1, Len(p))

(***************************************************************************)
(* C8: get_file(p) returns a file whose path is p if and only if p is one  *)
(* of list_paths(); for every other p it returns None.                     *)
(***************************************************************************)
C8_GetFileIffListed ==
    ret.op = "get_file" =>
        LET listed == \E n \in 1..Len(list_paths(bundle[1])) :
                         list_paths(bundle[1])[n] = ret.arg
        IN  /\ listed => \E f \in ret.value :
                            /\ f.path = ret.arg
                            /\ \E n \in 1..Len(Files(bundle[1])) : Files(bundle[1])[n] = f
            /\ ~listed => ret.value = None

\* get_file was asked for a file name whose file lies in a subdirectory
C8_Witness ==
    /\ ret.op = "get_file"
    /\ ret.arg = <<"b", ".", "x">>
    /\ ret.value = None
    /\ \E n \in 1..Len(Files(bundle[1])) : EndsWith(Files(bundle[1])[n].path, ret.arg)

(***************************************************************************)
(* C9 as stated: files_by_extension(ext) returns listed files only, each   *)
(* with a path that ends with "." ext, and omits no listed file whose path *)
(* ends with "." ext.                                                      *)
(***************************************************************************)
C9_AllPathsEndingWithExt ==
    ret.op = "files_by_extension" =>
        /\ \A n \in 1..Len(ret.value) :
             /\ \E m \in 1..Len(Files(bundle[1])) : Files(bundle[1])[m] = ret.value[n]
             /\ EndsWith(ret.value[n].path, <<".">> \o ret.arg)
        /\ \A m \in 1..Len(Files(bundle[1])) :
             EndsWith(Files(bundle[1])[m].path, <<".">> \o ret.arg) =>
                \E n \in 1..Len(ret.value) : ret.value[n] = Files(bundle[1])[m]

(***************************************************************************)
(* C9 amended: files_by_extension(ext) returns, in listing order, exactly  *)
(* the listed files whose file name is a non-empty stem followed by "."    *)
(* and ext, for an ext without "." or "/": every returned path ends with   *)
(* "." ext, a file whose name has its only dot in front (".x") is not      *)
(* returned, and an ext that contains a dot returns nothing.               *)
(***************************************************************************)
HasExtension(path, ext) ==
    /\ EndsWith(LastPiece(path), <<".">> \o ext)
    /\ Len(LastPiece(path)) > Len(ext) + 1
    /\ "." \notin Chars(ext)
    /\ "/" \notin Chars(ext)

C9_StemDotExt ==
    ret.op = "files_by_extension" =>
        /\ ret.value = SelectSeq(Files(bundle[1]), LAMBDA f : HasExtension(f.path, ret.arg))
        /\ \A n \in 1..Len(ret.value) : EndsWith(ret.value[n].path, <<".">> \o ret.arg)

\* "x" was asked of a bundle holding names with several dots and with a
\* leading dot, and a file was returned
C9_Witness ==
    /\ ret.op = "files_by_extension"
    /\ ret.arg = <<"x">>
    /\ Len(ret.value) >= 1
    /\ \E m \in 1..Len(Files(bundle[1])) :
         /\ Files(bundle[1])[m].path[1] = "."
         /\ EndsWith(Files(bundle[1])[m].path, <<".", "x">>)

(***************************************************************************)
(* C10: file_count() is the number of entries of list_paths(), each file   *)
(* counted once, the files of subdirectories included.                     *)
(***************************************************************************)
C10_FileCountIsListLength ==
    ret.op = "file_count" =>
        /\ ret.value = Len(list_paths(bundle[1]))
        /\ ret.value = Cardinality({list_paths(bundle[1])[n] :
                                      n \in 1..Len(list_paths(bundle[1]))})

\* a bundle with files in a subdirectory was counted
C10_Witness ==
    /\ ret.op = "file_count"
    /\ ret.value >= 2
    /\ \E n \in 1..Len(Files(bundle[1])) : "/" \in Chars(Files(bundle[1])[n].path)

\* the bytes of a bundle: one pair (n, j) for byte j of the n-th file
Bytes(b) == UNION { {<<n, j>> : j \in 1..Len(Files(b)[n].content)} : n \in 1..Len(Files(b)) }

\* C11: total_size answers the number of content bytes of all the files of
\* the listing together, each file counted once and an empty file adding
\* nothing; the answer for a bundle without files is 0.
C11_TotalSizeIsSumOfContentLengths ==
    ret.op = "total_size" =>
        /\ ret.value = Cardinality(Bytes(bundle[1]))
        /\ (Files(bundle[1]) = <<>> => ret.value = 0)

\* total_size has answered for a bundle of three files, one of them empty,
\* whose sizes differ
C11_Witness ==
    /\ ret.op = "total_size"
    /\ Len(Files(bundle[1])) = 3
    /\ \E n \in 1..3 : Files(bundle[1])[n].content = <<>>
    /\ ret.value = 3

\* the positions in files() of the files the call of t has written so far:
\* those whose write_all succeeded
Written(t) == {log[t][n].i : n \in {m \in 1..Len(log[t]) :
                                      log[t][m].op = "write_all" /\ log[t][m].ok}}

\* C12: the counter of a call is, at every moment, the number of files whose
\* write has succeeded (it grows by one per file and only after that file's
\* write), and the count write_to_directory returns with Ok is the number of
\* files written, which is file_count().
C12_CountIsFilesWritten ==
    \A t \in Threads :
        /\ pc[t] \in {"dir", "open", "write", "done"} =>
                count[t] = Cardinality(Written(t))
        /\ (Returned(t) /\ result[t].ok) =>
                /\ result[t].count = Cardinality(Written(t))
                /\ result[t].count = file_count(bundle[t])

\* one call has returned Ok(3) for three files of sizes 2, 1 and 0, and
\* another has failed on its third file with the counter at 2
C12_Witness ==
    /\ Returned(1)
    /\ file_count(bundle[1]) = 3
    /\ total_size(bundle[1]) = 3
    /\ \E n \in 1..Len(hist[1]) : hist[1][n].result = Ok(3)
    /\ ~result[1].ok
    /\ count[1] = 2

\* the results of the calls of t that returned, the latest last
Results(t) == [n \in 1..Len(hist[t]) |-> hist[t][n].result]

\* the error kinds among the results of the calls of t
KindsReturned(t) == {Results(t)[n].kind : n \in {m \in 1..Len(hist[t]) : ~Results(t)[m].ok}}

\* the calls of t have failed both at a directory creation and at a write,
\* the two places where write_to_directory can fail
FailedBothWays(t) ==
    LET fulls == {Join(base[t], Files(bundle[t])[m].path) : m \in 1..Len(Files(bundle[t]))}
        parents == {Unwrap(Parent(full)) : full \in fulls}
        failed == {n \in 1..Len(hist[t]) : ~Results(t)[n].ok}
    IN  /\ \E n \in failed : Results(t)[n].path \in parents
        /\ \E n \in failed : Results(t)[n].path \in fulls

\* the answers of the other operations for bundle b are values of their
\* types: none of them is a Result, none can be an error (the bundle of a
\* caller never changes: the properties ask this once, before its first call)
QueriesAnswer(b) ==
    LET files == {Files(b)[n] : n \in 1..Len(Files(b))}
        InFiles(seq) == \A n \in 1..Len(seq) : seq[n] \in files
    IN  /\ file_count(b) \in Nat
        /\ total_size(b) \in Nat
        /\ \A p \in QueryPaths : get_file(b, p) \in {None} \cup {Some(f) : f \in files}
        /\ \A e \in QueryExts : InFiles(files_by_extension(b, e))
        /\ InFiles(find_files(b, IsEmptyFile)) /\ InFiles(find_files(b, IsNested))
        /\ \A n \in 1..Len(list_paths(b)) : list_paths(b)[n] \in {f.path : f \in files}
        /\ DOMAIN summary(b) = {"name", "version", "license", "file_count", "total_size"}

\* C13 as stated: every error write_to_directory returns is of one of the
\* three kinds and, the three kinds all coming from write_to_directory, once
\* calls have failed at both places where it can fail (a directory creation
\* and a write) each of the three kinds has been returned; the other
\* operations never return an error.
C13_AllThreeKindsFromWrite ==
    \A t \in Threads :
        /\ KindsReturned(t) \subseteq SchemaErrorKinds
        /\ FailedBothWays(t) => KindsReturned(t) = SchemaErrorKinds
        /\ pc[t] = "idle" => QueriesAnswer(bundle[t])

\* C13: SchemaError has three kinds; a failing write_to_directory returns
\* CreateDirError or WriteError and nothing else, FileNotFound is returned
\* by no call however it fails, and the other operations (file_count,
\* get_file, find_files, files_by_extension, list_paths, total_size,
\* summary) never return an error.
C13_TwoKindsFromWrite ==
    \A t \in Threads :
        /\ Cardinality(SchemaErrorKinds) = 3
        /\ KindsReturned(t) \subseteq SchemaErrorKinds \ {"FileNotFound"}
        /\ (Returned(t) /\ ~result[t].ok) => result[t].kind \in {"CreateDirError", "WriteError"}
        /\ FailedBothWays(t) => KindsReturned(t) = {"CreateDirError", "WriteError"}
        /\ pc[t] = "idle" => QueriesAnswer(bundle[t])

\* a call failed at a directory creation, the next at the write of a file
\* whose place a directory has taken
C13_Witness ==
    /\ Len(hist[1]) = 2
    /\ FailedBothWays(1)
    /\ Results(1)[1].kind = "CreateDirError"
    /\ Results(1)[2].kind = "WriteError"
    /\ Results(1)[2].source = "IsADirectory"

\* the keys of the directories that lie between base_path and the files of
\* the bundle of t: the ancestors of base_path/p, below base_path
AncestorDirs(t) ==
    LET k == Resolve(base[t])
    IN  {e \in UNION {Chain(Front(Target(t, p))) :
                        p \in {list_paths(bundle[t])[n] :
                                 n \in 1..Len(list_paths(bundle[t]))}} :
            IsPrefix(k, e) /\ e # k}

\* the keys base_path gives the directories of the embedded tree: those that
\* lead to a file and those that hold none
EmbeddedDirs(t) ==
    AncestorDirs(t) \cup
        UNION {{e \in Chain(Target(t, d)) : e # Resolve(base[t])} : d \in EmptyDirs(bundle[t])}

\* the files base_path should hold after an extraction: base_path/p with the
\* content of the file with path p
EmbeddedFiles(t) ==
    [e \in {Target(t, Files(bundle[t])[n].path) : n \in 1..Len(Files(bundle[t]))} |->
        (CHOOSE f \in {Files(bundle[t])[n] : n \in 1..Len(Files(bundle[t]))} :
            Target(t, f.path) = e).content]

\* the calls of t that returned Ok on a base_path that held nothing
OkIntoEmpty(t) ==
    {n \in 1..Len(hist[t]) : hist[t][n].result.ok /\ BaseEmpty(hist[t][n].before, base[t])}

\* C14 as stated: after a successful extraction into an empty base path the
\* entries below base_path are those of the embedded tree: all of its
\* directories, those without files included, and its files with their
\* bytes, nothing else.
C14_IdenticalTree ==
    \A t \in Threads :
        \A n \in OkIntoEmpty(t) :
            LET below == Under(hist[t][n].after, Resolve(base[t]))
            IN  /\ below.dirs \ {Resolve(base[t])} = EmbeddedDirs(t)
                /\ below.files = EmbeddedFiles(t)

\* C14: after a successful extraction into an empty base path the files
\* below base_path are exactly the embedded files with their bytes, and the
\* directories below it are exactly those that lead to an embedded file; an
\* embedded directory that holds no file is not created.
C14_FilesAndTheirDirs ==
    \A t \in Threads :
        \A n \in OkIntoEmpty(t) :
            LET below == Under(hist[t][n].after, Resolve(base[t]))
            IN  /\ below.dirs \ {Resolve(base[t])} = AncestorDirs(t)
                /\ below.files = EmbeddedFiles(t)
                /\ \A d \in EmptyDirs(bundle[t]) : Target(t, d) \notin below.dirs

\* a bundle of three files, one in a directory, from a tree with
\* directories that hold no file, was extracted into the missing o/n
C14_Witness ==
    /\ OkIntoEmpty(1) # {}
    /\ base[1] = <<"o", "/", "n">>
    /\ ~IsDir(fs0[1], Resolve(base[1]))
    /\ file_count(bundle[1]) = 3
    /\ AncestorDirs(1) # {}
    /\ EmptyDirs(bundle[1]) # {}

\* NAME, VERSION and LICENSE of the bundle types
Identities ==
    { <<"DITA", "1.2", "OASIS-IPR">>, <<"SPL", "R2b", "BSD-3-Clause">>,
      <<"TEI", "P5", "BSD-2-Clause">> }

\* C15: summary can be asked in every state and never fails; its answer
\* carries NAME, VERSION and LICENSE of the bundle type and the file_count()
\* and total_size() of the bundle as they are at the request, and the
\* request changes nothing else: not the bundle, not the disk.
C15_SummaryMatchesBundle ==
    /\ [](ENABLED Summary)
    /\ [][ret'.op = "summary" =>
            /\ ret'.value.name = bundle[1].name
            /\ ret'.value.version = bundle[1].version
            /\ ret'.value.license = bundle[1].license
            /\ <<ret'.value.name, ret'.value.version, ret'.value.license>> \in Identities
            /\ ret'.value.file_count = Len(Files(bundle[1]))
            /\ ret'.value.total_size = Cardinality(Bytes(bundle[1]))
            /\ UNCHANGED <<fs, bundle, base, pc, idx, count, result, log, touched,
                           faulted, fs0, hist, budget, lastWrite, raced>>]_vars

\* summary has answered for the SPL bundle of three files and five bytes
C15_Witness ==
    /\ ret.op = "summary"
    /\ ret.value = [name |-> "SPL", version |-> "R2b", license |-> "BSD-3-Clause",
                    file_count |-> 3, total_size |-> 5]

\* the call of t is under way
Active(t) == pc[t] \in {"dir", "open", "write"}

\* the filesystem calls the call of t can still make: three for every file
\* after the one the loop is at, and those left for that file
Remaining(t) ==
    IF ~Active(t) THEN 0
    ELSE 3 * (Len(Files(bundle[t])) - idx[t])
            + (IF pc[t] = "dir" THEN 3 ELSE IF pc[t] = "open" THEN 2 ELSE 1)

\* the filesystem calls of kind op the call of t has made for file i
Attempts(t, op, i) == {n \in 1..Len(log[t]) : log[t][n].op = op /\ log[t][n].i = i}

\* C16: write_to_directory terminates: a call under way is at a file of the
\* bundle, every step brings it nearer to its return (the number of
\* filesystem calls still possible is a natural number, 3 * file_count() at
\* most, that falls with each step), it tries at most one directory creation
\* and at most one write (one File::create, one write_all) per file, it
\* never goes back to a file it has left, and it ends in Ok or Err.
C16_Terminates ==
    /\ [](\A t \in Threads :
            /\ Active(t) => idx[t] \in 1..Len(Files(bundle[t]))
            /\ Remaining(t) \in 0..(3 * file_count(bundle[t]))
            /\ \A i \in 1..Len(Files(bundle[t])) :
                  \A op \in {"create_dir_all", "create", "write_all"} :
                      Cardinality(Attempts(t, op, i)) <= 1
            /\ \A n \in 1..(Len(log[t]) - 1) : log[t][n].i <= log[t][n + 1].i
            /\ Returned(t) => result[t].ok \/ result[t].kind \in SchemaErrorKinds)
    /\ [][\A t \in Threads : Active(t) => Remaining(t)' < Remaining(t)]_vars

\* a call for three files has returned Ok after nine filesystem calls, three
\* per file
C16_Witness ==
    /\ Returned(1) /\ result[1] = Ok(3)
    /\ Len(log[1]) = 9
    /\ \A i \in 1..3 : \A op \in {"create_dir_all", "create", "write_all"} :
            Cardinality(Attempts(1, op, i)) = 1

\* the position in log[t] of the successful call of kind op for file i, 0
\* when there is none
Done(t, op, i) ==
    LET hits == {n \in Attempts(t, op, i) : log[t][n].ok}
    IN  IF hits = {} THEN 0 ELSE CHOOSE n \in hits : TRUE

\* C17: in every state of an extraction, for every file it has opened the
\* creation of the parent directory chain came before, and succeeded; every
\* file the call has written has all the directories above it on disk; and
\* the files written so far are the first files of the listing, without a
\* gap, the next one being the file the loop is at.
C17_DirsBeforeWrite ==
    \A t \in Threads :
        pc[t] \in {"dir", "open", "write", "done"} =>
            /\ \A n \in 1..Len(log[t]) :
                  log[t][n].op \in {"create", "write_all"} =>
                      /\ Done(t, "create_dir_all", log[t][n].i) \in 1..(n - 1)
                      /\ log[t][Done(t, "create_dir_all", log[t][n].i)].key
                            = Front(log[t][n].key)
            /\ \A i \in Written(t) :
                  LET k == Target(t, Files(bundle[t])[i].path)
                  IN  /\ Chain(Front(k)) \subseteq fs.dirs
                      /\ IsFile(fs, k)
            /\ \E m \in 0..Len(Files(bundle[t])) :
                  /\ Written(t) = 1..m
                  /\ Active(t) => idx[t] = m + 1

\* a call into the missing o/n has written a.x and s/b.x, for which it
\* created o, o/n and o/n/s, and is about to open its third file
C17_Witness ==
    /\ pc[1] = "open"
    /\ base[1] = <<"o", "/", "n">>
    /\ fs0[1].dirs = {<<>>}
    /\ Written(1) = {1, 2}
    /\ idx[1] = 3
    /\ Cardinality(fs.dirs) >= 4

\* the keys of base_path/p for the paths p of the bundle of t
Targets(t) == {Target(t, Files(bundle[t])[n].path) : n \in 1..Len(Files(bundle[t]))}

\* C18: during and after a call, successful or not, nothing that was on
\* disk at its start is gone, every file that is not at base_path/p for a
\* path p of the bundle was there at the start and holds what it held, and
\* every directory that was not there at the start lies above such a file;
\* a call for a bundle without files returns Ok(0) and leaves the disk as
\* it was, base_path not created.
C18_Frame ==
    \A t \in Threads :
        pc[t] \in {"dir", "open", "write", "done"} =>
            /\ fs0[t].dirs \subseteq fs.dirs
            /\ DOMAIN fs0[t].files \subseteq DOMAIN fs.files
            /\ \A k \in DOMAIN fs.files \ Targets(t) :
                  /\ k \in DOMAIN fs0[t].files
                  /\ fs.files[k] = fs0[t].files[k]
            /\ fs.dirs \ fs0[t].dirs \subseteq UNION {Chain(Front(k)) : k \in Targets(t)}
            /\ Files(bundle[t]) = <<>> =>
                  /\ Returned(t) /\ result[t] = Ok(0)
                  /\ fs = fs0[t]
                  /\ log[t] = <<>>

\* a call on o, which held a foreign file z and an older a.x, has replaced
\* a.x, created o/s and then failed: z is as it was
C18_Witness ==
    /\ Returned(1) /\ ~result[1].ok
    /\ base[1] = <<"o">>
    /\ IsFile(fs0[1], <<O, <<"z">>>>)
    /\ fs.files[<<O, <<"z">>>>] = <<1>>
    /\ fs.files[<<O, <<"a", ".", "x">>>>] # fs0[1].files[<<O, <<"a", ".", "x">>>>]
    /\ fs.dirs \ fs0[1].dirs # {}

====
